---------------------------- MODULE Spec2Model ----------------------------
(***************************************************************************)
(* Donor verification tool: the single-call Streamlit app with history and *)
(* batch mode (src/app.py) and the two-stage app with a summary call       *)
(* (src/app-dev.py).                                                       *)
(*                                                                         *)
(* Text is modelled as a sequence of one-character strings, so that the    *)
(* substring tests, prefix tests, strip and split of the code are computed *)
(* on the characters themselves.  A remote call is split at the call: one  *)
(* action issues it, another receives its reply or its exception.          *)
(***************************************************************************)
EXTENDS Integers, Sequences, FiniteSets, TLC

VARIABLES
    app,                \* which script the session runs: "app" or "dev"
    api_key,            \* the API-KEY secret (empty when absent)
    pc,                 \* position of the script run
    form,               \* the donor fields submitted with the current run
    calls,              \* remote calls issued by the current run, in order
    raised,             \* the exception caught by the current run, or NoException
    display,            \* widgets rendered by the current run, in order
    downloads,          \* download buttons offered by the current run
    response,           \* the reply to the verification call of the current run
    summary_response,   \* app-dev.py: the reply to the summary call
    verification_text,  \* app-dev.py: text extracted from the first reply
    summary_text,       \* app-dev.py: text of the summary reply
    history,            \* app.py: st.session_state.verification_history
    rendered,           \* app.py: records in the history when the sidebar of
                        \* the last run was rendered (line 97)
    uploaded_file,      \* app.py: the file held by st.file_uploader, if any
    df,                 \* app.py batch: rows read from the uploaded CSV by the run
    idx,                \* app.py batch: index of the next row
    results             \* app.py batch: result entries of the running batch

vars == <<app, api_key, pc, form, calls, raised, display, downloads,
          response, summary_response, verification_text, summary_text, history,
          rendered, uploaded_file, df, idx, results>>

-----------------------------------------------------------------------------
(* Bounds of the model *)

MaxHistory == 2
MaxSegments == 2
MaxSummaryLines == 2
MaxRows == 2

-----------------------------------------------------------------------------
(* Python string operations on character sequences *)

UpperLetters ==
    <<"A","B","C","D","E","F","G","H","I","J","K","L","M",
      "N","O","P","Q","R","S","T","U","V","W","X","Y","Z">>

LowerLetters ==
    <<"a","b","c","d","e","f","g","h","i","j","k","l","m",
      "n","o","p","q","r","s","t","u","v","w","x","y","z">>

LowerChar(c) ==
    IF \E i \in DOMAIN UpperLetters : UpperLetters[i] = c
    THEN LowerLetters[CHOOSE i \in DOMAIN UpperLetters : UpperLetters[i] = c]
    ELSE c

\* str.lower()
Lower(s) == [i \in 1..Len(s) |-> LowerChar(s[i])]

\* sub in s
Contains(sub, s) ==
    \E i \in 0..(Len(s) - Len(sub)) : SubSeq(s, i + 1, i + Len(sub)) = sub

\* s.startswith(p)
StartsWith(s, p) ==
    /\ Len(p) <= Len(s)
    /\ SubSeq(s, 1, Len(p)) = p

IsSpace(c) == c \in {" ", "\n", "\t", "\r"}

RECURSIVE LStrip(_)
LStrip(s) ==
    IF s # <<>> /\ IsSpace(Head(s)) THEN LStrip(Tail(s)) ELSE s

RECURSIVE RStrip(_)
RStrip(s) ==
    IF s # <<>> /\ IsSpace(s[Len(s)]) THEN RStrip(SubSeq(s, 1, Len(s) - 1)) ELSE s

\* s.strip()
Strip(s) == RStrip(LStrip(s))

\* s.split('\n'): the pieces between line breaks, empty pieces included
RECURSIVE SplitLines(_)
SplitLines(s) ==
    IF \E i \in 1..Len(s) : s[i] = "\n"
    THEN LET i == CHOOSE j \in 1..Len(s) :
                      /\ s[j] = "\n"
                      /\ \A k \in 1..(j - 1) : s[k] # "\n"
         IN  <<SubSeq(s, 1, i - 1)>> \o SplitLines(SubSeq(s, i + 1, Len(s)))
    ELSE <<s>>

\* bool(s) of a str
Truthy(s) == s # <<>>

-----------------------------------------------------------------------------
(* String literals of the program and of the client library's exceptions *)

\* "No response received"
NO_RESPONSE_RECEIVED ==
    <<"N","o"," ","r","e","s","p","o","n","s","e"," ","r","e","c","e","i","v","e","d">>
\* "No response"
NO_RESPONSE ==
    <<"N","o"," ","r","e","s","p","o","n","s","e">>
\* "Web search was performed but no analysis was generated. Please try again."
NO_ANALYSIS ==
    <<"W","e","b"," ","s","e","a","r","c","h"," ","w","a","s"," ","p","e","r","f","o",
      "r","m","e","d"," ","b","u","t"," ","n","o"," ","a","n","a","l","y","s","i","s",
      " ","w","a","s"," ","g","e","n","e","r","a","t","e","d","."," ","P","l","e","a",
      "s","e"," ","t","r","y"," ","a","g","a","i","n",".">>
\* "Error code: 401 - {'type': 'error', 'error': {'type': 'authentication_error', 'message': 'invalid x-api-key'}}"
AUTH_MSG ==
    <<"E","r","r","o","r"," ","c","o","d","e",":"," ","4","0","1"," ","-"," ","{","'",
      "t","y","p","e","'",":"," ","'","e","r","r","o","r","'",","," ","'","e","r","r",
      "o","r","'",":"," ","{","'","t","y","p","e","'",":"," ","'","a","u","t","h","e",
      "n","t","i","c","a","t","i","o","n","_","e","r","r","o","r","'",","," ","'","m",
      "e","s","s","a","g","e","'",":"," ","'","i","n","v","a","l","i","d"," ","x","-",
      "a","p","i","-","k","e","y","'","}","}">>
\* "Error code: 429 - {'type': 'error', 'error': {'type': 'rate_limit_error', 'message': 'This request would exceed the rate limit for your organization'}}"
RATE_MSG ==
    <<"E","r","r","o","r"," ","c","o","d","e",":"," ","4","2","9"," ","-"," ","{","'",
      "t","y","p","e","'",":"," ","'","e","r","r","o","r","'",","," ","'","e","r","r",
      "o","r","'",":"," ","{","'","t","y","p","e","'",":"," ","'","r","a","t","e","_",
      "l","i","m","i","t","_","e","r","r","o","r","'",","," ","'","m","e","s","s","a",
      "g","e","'",":"," ","'","T","h","i","s"," ","r","e","q","u","e","s","t"," ","w",
      "o","u","l","d"," ","e","x","c","e","e","d"," ","t","h","e"," ","r","a","t","e",
      " ","l","i","m","i","t"," ","f","o","r"," ","y","o","u","r"," ","o","r","g","a",
      "n","i","z","a","t","i","o","n","'","}","}">>
\* "Connection error."
CONN_MSG ==
    <<"C","o","n","n","e","c","t","i","o","n"," ","e","r","r","o","r",".">>
\* "Request timed out."
TIMEOUT_MSG ==
    <<"R","e","q","u","e","s","t"," ","t","i","m","e","d"," ","o","u","t",".">>
\* "list index out of range"
INDEX_MSG ==
    <<"l","i","s","t"," ","i","n","d","e","x"," ","o","u","t"," ","o","f"," ","r","a",
      "n","g","e">>
\* "'ServerToolUseBlock' object has no attribute 'text'"
ATTR_TOOL_USE_MSG ==
    <<"'","S","e","r","v","e","r","T","o","o","l","U","s","e","B","l","o","c","k","'",
      " ","o","b","j","e","c","t"," ","h","a","s"," ","n","o"," ","a","t","t","r","i",
      "b","u","t","e"," ","'","t","e","x","t","'">>
\* "'WebSearchToolResultBlock' object has no attribute 'text'"
ATTR_TOOL_RESULT_MSG ==
    <<"'","W","e","b","S","e","a","r","c","h","T","o","o","l","R","e","s","u","l","t",
      "B","l","o","c","k","'"," ","o","b","j","e","c","t"," ","h","a","s"," ","n","o",
      " ","a","t","t","r","i","b","u","t","e"," ","'","t","e","x","t","'">>
\* "api_key"
KW_API_KEY ==
    <<"a","p","i","_","k","e","y">>
\* "rate"
KW_RATE ==
    <<"r","a","t","e">>
\* "timeout"
KW_TIMEOUT ==
    <<"t","i","m","e","o","u","t">>
\* "api"
KW_API ==
    <<"a","p","i">>
\* "VERIFICATION STATUS:"
VERIFICATION_STATUS ==
    <<"V","E","R","I","F","I","C","A","T","I","O","N"," ","S","T","A","T","U","S",":">>
\* "CONFIDENCE LEVEL:"
CONFIDENCE_LEVEL ==
    <<"C","O","N","F","I","D","E","N","C","E"," ","L","E","V","E","L",":">>
\* "NEXT STEPS:"
NEXT_STEPS ==
    <<"N","E","X","T"," ","S","T","E","P","S",":">>
\* "HIGH"
HIGH ==
    <<"H","I","G","H">>
\* "MEDIUM"
MEDIUM ==
    <<"M","E","D","I","U","M">>
\* "LOW"
LOW ==
    <<"L","O","W">>
\* "2026-01-01 00:00:00"
NOW ==
    <<"2","0","2","6","-","0","1","-","0","1"," ","0","0",":","0","0",":","0","0">>

\* "2026-01-01T00:00:00": timestamp.isoformat() at the same instant
NOW_ISO ==
    <<"2","0","2","6","-","0","1","-","0","1","T","0","0",":","0","0",":","0","0">>

-----------------------------------------------------------------------------
(* Replies of the remote service *)

\* A content block of a reply; only a text block has the attribute `text`
TextBlock(t) == [type |-> "text", text |-> t]
ToolUseBlock == [type |-> "server_tool_use", text |-> <<>>]
ToolResultBlock == [type |-> "web_search_tool_result", text |-> <<>>]

HasText(block) == block.type = "text"

\* Exceptions: class name and str(e)
NoException == [type |-> "none", msg |-> <<>>]
AuthenticationError == [type |-> "AuthenticationError", msg |-> AUTH_MSG]
RateLimitError == [type |-> "RateLimitError", msg |-> RATE_MSG]
APIConnectionError == [type |-> "APIConnectionError", msg |-> CONN_MSG]
APITimeoutError == [type |-> "APITimeoutError", msg |-> TIMEOUT_MSG]
IndexError == [type |-> "IndexError", msg |-> INDEX_MSG]

\* content_item.text on a block without that attribute
AttributeError(block) ==
    [type |-> "AttributeError",
     msg |-> IF block.type = "server_tool_use"
             THEN ATTR_TOOL_USE_MSG ELSE ATTR_TOOL_RESULT_MSG]

\* A reply variable before and after the call returned
NoResponse == [received |-> FALSE, content |-> <<>>]
Received(content) == [received |-> TRUE, content |-> content]

\* The failures a remote call can end in
RemoteErrors ==
    {AuthenticationError, RateLimitError, APIConnectionError, APITimeoutError}


-----------------------------------------------------------------------------
(* Inputs *)

Hi == <<"H","i">>
Al == <<"A","l">>
Bo == <<"B","o">>
Mail == <<"a","@","b">>
Dev == <<"D","e","v">>
Acme == <<"A","c","m","e">>
\* A text with quotes and a backslash in it: "Q"\
Quoted == <<"\"","Q","\"","\\">>
Key == <<"s","k">>

SeqsUpTo(S, n) == UNION {[1..k -> S] : k \in 0..n}

\* Texts a text block may carry
SegmentTexts == {<<>>, Hi}

Blocks == {TextBlock(t) : t \in SegmentTexts} \cup {ToolUseBlock, ToolResultBlock}

\* message.content of a reply: a list of content blocks, possibly empty
Contents == SeqsUpTo(Blocks, MaxSegments)

\* Values of the donor form of app.py
AppForms ==
    {[name |-> <<>>, email |-> Mail, phone |-> <<>>, address |-> <<>>,
      job_title |-> <<>>, company |-> <<>>, linkedin_url |-> <<>>],
     [name |-> Al, email |-> <<>>, phone |-> <<>>, address |-> <<>>,
      job_title |-> <<>>, company |-> <<>>, linkedin_url |-> <<>>],
     [name |-> Bo, email |-> Mail, phone |-> <<>>, address |-> Quoted,
      job_title |-> Dev, company |-> Acme, linkedin_url |-> <<>>]}

\* Values of the three inputs of app-dev.py
DevForms ==
    {[name |-> <<>>, title |-> Dev, company |-> Acme],
     [name |-> Al, title |-> <<>>, company |-> <<>>],
     [name |-> Bo, title |-> Dev, company |-> Quoted]}

NoForm == [name |-> <<>>]

Models == {"claude-sonnet-4-20250514", "claude-opus-4-20250514"}

-----------------------------------------------------------------------------
(* Rendered widgets *)

Widget(w, label, data) == [w |-> w, label |-> label, data |-> data]

Shows(w, label) == \E i \in DOMAIN display : display[i].w = w /\ display[i].label = label

-----------------------------------------------------------------------------
(* json.dumps(record, indent=2) of the JSON downloads *)

\* A value handed to json.dumps: a str, a bool, a float with no fractional
\* part (w stands for w.0), or a dict as the sequence of its <<key, value>>
\* pairs in insertion order
JStr(s) == [t |-> "str", v |-> s]
JBool(b) == [t |-> "bool", v |-> b]
JFloat(w) == [t |-> "float", v |-> w]
JDict(members) == [t |-> "dict", v |-> members]

\* Keys and fixed values of the exported dicts
K_TIMESTAMP == <<"t","i","m","e","s","t","a","m","p">>
K_NAME == <<"n","a","m","e">>
K_DATA == <<"d","a","t","a">>
K_INPUT == <<"i","n","p","u","t">>
K_EMAIL == <<"e","m","a","i","l">>
K_PHONE == <<"p","h","o","n","e">>
K_ADDRESS == <<"a","d","d","r","e","s","s">>
K_JOB_TITLE == <<"j","o","b","_","t","i","t","l","e">>
K_COMPANY == <<"c","o","m","p","a","n","y">>
K_LINKEDIN == <<"l","i","n","k","e","d","i","n">>
K_VERIFICATION_RESULT ==
    <<"v","e","r","i","f","i","c","a","t","i","o","n","_","r","e","s","u","l","t">>
K_PROCESSING_TIME_SECONDS ==
    <<"p","r","o","c","e","s","s","i","n","g","_","t","i","m","e","_","s","e","c","o", "n","d","s">>
K_DONOR_INFO == <<"d","o","n","o","r","_","i","n","f","o">>
K_TITLE == <<"t","i","t","l","e">>
K_WEB_SEARCH == <<"w","e","b","_","s","e","a","r","c","h">>
K_EXECUTED == <<"e","x","e","c","u","t","e","d">>
K_STATUS == <<"s","t","a","t","u","s">>
K_VERIFICATION_ANALYSIS ==
    <<"v","e","r","i","f","i","c","a","t","i","o","n","_","a","n","a","l","y","s","i", "s">>
K_EXECUTIVE_SUMMARY ==
    <<"e","x","e","c","u","t","i","v","e","_","s","u","m","m","a","r","y">>
COMPLETED == <<"c","o","m","p","l","e","t","e","d">>
JSON_TRUE == <<"t","r","u","e">>
JSON_FALSE == <<"f","a","l","s","e">>

\* app.py:226-241: verification_record as json.dumps walks it
RecordJson(rec) ==
    JDict(<<
        <<K_TIMESTAMP, JStr(rec.timestamp)>>,
        <<K_NAME, JStr(rec.name)>>,
        <<K_DATA, JDict(<<
            <<K_INPUT, JDict(<<
                <<K_NAME, JStr(rec.data.input.name)>>,
                <<K_EMAIL, JStr(rec.data.input.email)>>,
                <<K_PHONE, JStr(rec.data.input.phone)>>,
                <<K_ADDRESS, JStr(rec.data.input.address)>>,
                <<K_JOB_TITLE, JStr(rec.data.input.job_title)>>,
                <<K_COMPANY, JStr(rec.data.input.company)>>,
                <<K_LINKEDIN, JStr(rec.data.input.linkedin)>> >>)>>,
            <<K_VERIFICATION_RESULT, JStr(rec.data.verification_result)>> >>)>> >>)

\* app-dev.py:186-200: report as json.dumps walks it
ReportJson(rep) ==
    JDict(<<
        <<K_TIMESTAMP, JStr(rep.timestamp)>>,
        <<K_PROCESSING_TIME_SECONDS, JFloat(rep.processing_time_seconds)>>,
        <<K_DONOR_INFO, JDict(<<
            <<K_NAME, JStr(rep.donor_info.name)>>,
            <<K_TITLE, JStr(rep.donor_info.title)>>,
            <<K_COMPANY, JStr(rep.donor_info.company)>> >>)>>,
        <<K_WEB_SEARCH, JDict(<<
            <<K_EXECUTED, JBool(rep.web_search.executed)>>,
            <<K_STATUS, JStr(rep.web_search.status)>> >>)>>,
        <<K_VERIFICATION_ANALYSIS, JStr(rep.verification_analysis)>>,
        <<K_EXECUTIVE_SUMMARY, JStr(rep.executive_summary)>> >>)

DigitChars == <<"0","1","2","3","4","5","6","7","8","9">>

\* repr of a non-negative int
RECURSIVE NatDigits(_)
NatDigits(n) ==
    IF n < 10 THEN <<DigitChars[n + 1]>>
    ELSE NatDigits(n \div 10) \o <<DigitChars[(n % 10) + 1]>>

\* float.__repr__ of w.0
FloatRepr(w) == NatDigits(w) \o <<".","0">>

\* An escape that leaves every character as it is
JsonEscapeCharRaw(c) == <<c>>

\* json.dumps escapes the quote, the backslash and the control characters of a
\* str (the texts here have no other control and no non-ASCII characters)
JsonEscapeChar(c) ==
    CASE c = "\"" -> <<"\\","\"">>
      [] c = "\\" -> <<"\\","\\">>
      [] c = "\n" -> <<"\\","n">>
      [] c = "\r" -> <<"\\","r">>
      [] c = "\t" -> <<"\\","t">>
      [] OTHER -> <<c>>

\* The escapes of the characters of s, one after the other (two slots for
\* each character, the unused ones dropped)
JsonEscape(s) ==
    LET slots == [k \in 1..(2 * Len(s)) |->
                    LET e == JsonEscapeChar(s[(k + 1) \div 2])
                    IN  IF k % 2 = 0 THEN e[Len(e)]
                        ELSE IF Len(e) = 2 THEN e[1] ELSE ""]
    IN  IF \A k \in DOMAIN s : JsonEscapeChar(s[k]) = <<s[k]>> THEN s
        ELSE SelectSeq(slots, LAMBDA c : c # "")

JsonString(s) == <<"\"">> \o JsonEscape(s) \o <<"\"">>

\* indent=2: two spaces for each level of nesting
JSON_INDENT == 2
Indent(level) == [i \in 1..(JSON_INDENT * level) |-> " "]

\* indent=2 puts every member on a line of its own, ", " becomes "," and a
\* line break, the key separator is ": "
RECURSIVE JsonEncode(_, _)
RECURSIVE EncodeMembers(_, _, _)
JsonEncode(v, level) ==
    CASE v.t = "str" -> JsonString(v.v)
      [] v.t = "bool" -> (IF v.v THEN JSON_TRUE ELSE JSON_FALSE)
      [] v.t = "float" -> FloatRepr(v.v)
      [] v.t = "dict" ->
            IF v.v = <<>> THEN <<"{","}">>
            ELSE <<"{","\n">> \o EncodeMembers(v.v, 1, level + 1)
                 \o <<"\n">> \o Indent(level) \o <<"}">>

EncodeMembers(ms, k, level) ==
    Indent(level) \o JsonString(ms[k][1]) \o <<":"," ">>
    \o JsonEncode(ms[k][2], level)
    \o (IF k < Len(ms) THEN <<",","\n">> \o EncodeMembers(ms, k + 1, level)
        ELSE <<>>)

\* json.dumps(value, indent=2)
JsonDumps(v) == JsonEncode(v, 0)

-----------------------------------------------------------------------------
(* src/app.py: the uploaded CSV file *)

\* A cell of the data frame: a str, or the float NaN that pandas.read_csv puts
\* in place of an empty field
Str(s) == [kind |-> "str", s |-> s]
NaN == [kind |-> "nan", s |-> <<>>]

\* bool(v) of a cell value: a str is false when empty, NaN is a non-zero float
CellTruthy(v) == IF v.kind = "str" THEN Truthy(v.s) ELSE TRUE

\* Fields of one line of an uploaded CSV file (raw text between the commas)
CsvLines ==
    {[name |-> <<>>, company |-> Acme, job_title |-> Dev, email |-> Mail],
     [name |-> Al, company |-> <<>>, job_title |-> <<>>, email |-> <<>>]}

\* Uploaded files: with a `name` column, or without one
CsvFiles ==
    {[has_name |-> h, lines |-> ls] :
        h \in BOOLEAN, ls \in SeqsUpTo(CsvLines, MaxRows)}

\* Line 334: pd.read_csv turns every empty field into NaN
ReadCsv(file) ==
    LET Cell(raw) == IF raw = <<>> THEN NaN ELSE Str(raw)
    IN  [i \in 1..Len(file.lines) |->
            [has_name |-> file.has_name,
             name |-> Cell(file.lines[i].name),
             company |-> Cell(file.lines[i].company),
             job_title |-> Cell(file.lines[i].job_title),
             email |-> Cell(file.lines[i].email)]]

\* Lines 326-330: st.file_uploader gives None while no file is chosen; the
\* widget holds a chosen file across the runs of the script
NoFile == <<>>

\* Lines 332-334: every run that comes to the batch section with a file in the
\* uploader reads it again
UploadedFrame(uf) == IF uf = NoFile THEN <<>> ELSE ReadCsv(uf[1])

\* Lines 332-337: such a run shows the frame (st.dataframe) above the Start
\* Batch Verification button
BatchSection(uf) ==
    IF uf = NoFile THEN <<>>
    ELSE <<Widget("dataframe", "uploaded file", <<>>)>>

-----------------------------------------------------------------------------
(* src/app.py: page, sidebar and single-donor form *)

\* Lines 58-64: the key is read from the secrets on every run of the script
AppPage ==
    IF ~Truthy(api_key)
    THEN <<Widget("error", "API Key not found in secrets", <<>>)>>
    ELSE <<>>

HISTORY_SHOWN == 5

Reverse(s) == [i \in 1..Len(s) |-> s[Len(s) + 1 - i]]

\* Lines 104-106: the sidebar lists the last five of the records stored when
\* it was rendered, newest first
SidebarHistory ==
    LET n == rendered
        from == IF n > HISTORY_SHOWN THEN n - HISTORY_SHOWN + 1 ELSE 1
    IN  Reverse(SubSeq(history, from, n))

\* The default of an optional field in the prompts of app.py
\* "Not provided"
NOT_PROVIDED_DEFAULT ==
    <<"N","o","t"," ","p","r","o","v","i","d","e","d">>

\* app.py:158-180, the literal text of verification_query between its fields
APP_QUERY ==
    <<
    <<"\n"," "," "," "," "," "," "," "," "," "," "," "," "," "," "," "," ","P","l","e",
      "a","s","e"," ","v","e","r","i","f","y"," ","t","h","e"," ","f","o","l","l","o",
      "w","i","n","g"," ","i","n","f","o","r","m","a","t","i","o","n"," ","a","b","o",
      "u","t"," ">>,
    <<":","\n"," "," "," "," "," "," "," "," "," "," "," "," "," "," "," "," ","\n"," ",
      " "," "," "," "," "," "," "," "," "," "," "," "," "," "," ","N","a","m","e",":",
      " ">>,
    <<"\n"," "," "," "," "," "," "," "," "," "," "," "," "," "," "," "," ","E","m","a",
      "i","l",":"," ">>,
    <<"\n"," "," "," "," "," "," "," "," "," "," "," "," "," "," "," "," ","P","h","o",
      "n","e",":"," ">>,
    <<"\n"," "," "," "," "," "," "," "," "," "," "," "," "," "," "," "," ","A","d","d",
      "r","e","s","s",":"," ">>,
    <<"\n"," "," "," "," "," "," "," "," "," "," "," "," "," "," "," "," ","J","o","b",
      " ","T","i","t","l","e",":"," ">>,
    <<"\n"," "," "," "," "," "," "," "," "," "," "," "," "," "," "," "," ","C","o","m",
      "p","a","n","y",":"," ">>,
    <<"\n"," "," "," "," "," "," "," "," "," "," "," "," "," "," "," "," ","L","i","n",
      "k","e","d","I","n",":"," ">>,
    <<"\n"," "," "," "," "," "," "," "," "," "," "," "," "," "," "," "," ","\n"," "," ",
      " "," "," "," "," "," "," "," "," "," "," "," "," "," ","P","l","e","a","s","e",
      " ","s","e","a","r","c","h"," ","f","o","r"," ","i","n","f","o","r","m","a","t",
      "i","o","n"," ","a","b","o","u","t"," ","t","h","i","s"," ","p","e","r","s","o",
      "n"," ","a","n","d"," ","v","e","r","i","f","y",":","\n"," "," "," "," "," "," ",
      " "," "," "," "," "," "," "," "," "," ","1","."," ","I","s"," ","t","h","i","s",
      " ","p","e","r","s","o","n","'","s"," ","j","o","b"," ","t","i","t","l","e"," ",
      "a","n","d"," ","c","o","m","p","a","n","y"," ","c","o","r","r","e","c","t","?",
      "\n"," "," "," "," "," "," "," "," "," "," "," "," "," "," "," "," ","2","."," ",
      "C","a","n"," ","y","o","u"," ","f","i","n","d"," ","a","n","y"," ","p","r","o",
      "f","e","s","s","i","o","n","a","l"," ","i","n","f","o","r","m","a","t","i","o",
      "n"," ","a","b","o","u","t"," ","t","h","e","m","?","\n"," "," "," "," "," "," ",
      " "," "," "," "," "," "," "," "," "," ","3","."," ","I","s"," ","t","h","e"," ",
      "l","o","c","a","t","i","o","n"," ","(","c","i","t","y","/","s","t","a","t","e",
      ")"," ","c","o","n","s","i","s","t","e","n","t"," ","w","i","t","h"," ","a","v",
      "a","i","l","a","b","l","e"," ","i","n","f","o","r","m","a","t","i","o","n","?",
      "\n"," "," "," "," "," "," "," "," "," "," "," "," "," "," "," "," ","4","."," ",
      "A","r","e"," ","t","h","e","r","e"," ","a","n","y"," ","r","e","d"," ","f","l",
      "a","g","s"," ","o","r"," ","i","n","c","o","n","s","i","s","t","e","n","c","i",
      "e","s","?","\n"," "," "," "," "," "," "," "," "," "," "," "," "," "," "," "," ",
      "\n"," "," "," "," "," "," "," "," "," "," "," "," "," "," "," "," ","P","r","o",
      "v","i","d","e"," ","a"," ","s","t","r","u","c","t","u","r","e","d"," ","r","e",
      "s","p","o","n","s","e"," ","w","i","t","h",":","\n"," "," "," "," "," "," "," ",
      " "," "," "," "," "," "," "," "," ","-"," ","V","e","r","i","f","i","c","a","t",
      "i","o","n"," ","s","t","a","t","u","s"," ","f","o","r"," ","e","a","c","h"," ",
      "p","i","e","c","e"," ","o","f"," ","i","n","f","o","r","m","a","t","i","o","n",
      " ","(","V","e","r","i","f","i","e","d","/","U","n","a","b","l","e"," ","t","o",
      " ","V","e","r","i","f","y","/","C","o","n","t","r","a","d","i","c","t","o","r",
      "y",")","\n"," "," "," "," "," "," "," "," "," "," "," "," "," "," "," "," ","-",
      " ","C","o","n","f","i","d","e","n","c","e"," ","l","e","v","e","l"," ","(","H",
      "i","g","h","/","M","e","d","i","u","m","/","L","o","w",")","\n"," "," "," "," ",
      " "," "," "," "," "," "," "," "," "," "," "," ","-"," ","A","n","y"," ","a","d",
      "d","i","t","i","o","n","a","l"," ","r","e","l","e","v","a","n","t"," ","i","n",
      "f","o","r","m","a","t","i","o","n"," ","f","o","u","n","d","\n"," "," "," "," ",
      " "," "," "," "," "," "," "," "," "," "," "," ","-"," ","S","o","u","r","c","e",
      "s"," ","u","s","e","d"," ","f","o","r"," ","v","e","r","i","f","i","c","a","t",
      "i","o","n","\n"," "," "," "," "," "," "," "," "," "," "," "," "," "," "," "," ">>
    >>

\* Lines 158-180: {X if X else 'Not provided'} of an optional form field
OrNotProvided(v) == IF Truthy(v) THEN v ELSE NOT_PROVIDED_DEFAULT

\* Lines 158-180: the text of verification_query
VerificationQuery(f) ==
    APP_QUERY[1] \o f.name \o APP_QUERY[2] \o f.name
    \o APP_QUERY[3] \o OrNotProvided(f.email)
    \o APP_QUERY[4] \o OrNotProvided(f.phone)
    \o APP_QUERY[5] \o OrNotProvided(f.address)
    \o APP_QUERY[6] \o OrNotProvided(f.job_title)
    \o APP_QUERY[7] \o OrNotProvided(f.company)
    \o APP_QUERY[8] \o OrNotProvided(f.linkedin_url)
    \o APP_QUERY[9]

\* Lines 186-204: the request of the single-donor verification
AppRequest(f, m) ==
    [api |-> "beta.messages.create", stage |-> "verification", model |-> m,
     max_tokens |-> 2000, web_search |-> TRUE, prompt |-> VerificationQuery(f)]

\* Line 211: message.content[0].text if message.content else "No response received"
\* (the value, or the exception the attribute access raises)
AppResponseText(content) ==
    IF content # <<>>
    THEN IF HasText(content[1])
         THEN [ok |-> TRUE, text |-> content[1].text, exc |-> NoException]
         ELSE [ok |-> FALSE, text |-> <<>>, exc |-> AttributeError(content[1])]
    ELSE [ok |-> TRUE, text |-> NO_RESPONSE_RECEIVED, exc |-> NoException]

\* A record that takes the LinkedIn field from the company input
VerificationRecordMixed(f, response_text) ==
    [timestamp |-> NOW,
     name |-> f.name,
     data |-> [input |-> [name |-> f.name, email |-> f.email, phone |-> f.phone,
                          address |-> f.address, job_title |-> f.job_title,
                          company |-> f.company, linkedin |-> f.company],
               verification_result |-> response_text]]

\* Lines 226-241
VerificationRecord(f, response_text) ==
    [timestamp |-> NOW,
     name |-> f.name,
     data |-> [input |-> [name |-> f.name, email |-> f.email, phone |-> f.phone,
                          address |-> f.address, job_title |-> f.job_title,
                          company |-> f.company, linkedin |-> f.linkedin_url],
               verification_result |-> response_text]]

\* Lines 286-294: the hint chosen from the text of the exception
AppErrorHint(e) ==
    IF Contains(KW_API_KEY, Lower(e.msg)) THEN "This appears to be an API key issue"
    ELSE IF Contains(KW_RATE, Lower(e.msg)) THEN "You may have hit a rate limit"
    ELSE IF Contains(KW_TIMEOUT, Lower(e.msg)) THEN "The request timed out"
    ELSE "Please check your configuration and try again"

\* Lines 284-294: the message and the hint shown for an exception
AppErrorWidgets(e) ==
    <<Widget("error", "Error during verification: ", e.msg),
      Widget("info", AppErrorHint(e), <<>>)>>

\* A handler that issues the failed request again
AppExceptRetry(e) ==
    /\ raised' = e
    /\ display' = AppPage \o AppErrorWidgets(e) \o BatchSection(uploaded_file)
    /\ calls' = Append(calls, calls[Len(calls)])
    /\ pc' = "app_call"
    /\ UNCHANGED <<downloads, history>>

\* Lines 279-294
AppExcept(e) ==
    /\ raised' = e
    /\ display' = AppPage \o AppErrorWidgets(e) \o BatchSection(uploaded_file)
    /\ pc' = "idle"
    /\ UNCHANGED <<calls, downloads, history>>

\* A store that puts the newest record first
StoreInHistoryFirst(h, rec) == <<rec>> \o h

\* Line 242: st.session_state.verification_history.append(verification_record)
StoreInHistory(h, rec) == Append(h, rec)

\* Lines 332-337 in a run that does not start a batch: the file in the uploader
\* is read, the loop index and the result list are not bound
NoBatch ==
    /\ df' = UploadedFrame(uploaded_file)
    /\ idx' = 1
    /\ results' = <<>>

\* Lines 135-204: the form is submitted; the run stops at the remote call, or
\* goes on to the end of the script when the input is rejected
AppSubmit(f, m) ==
    /\ app = "app"
    /\ pc = "idle"
    /\ Len(history) < MaxHistory
    /\ form' = f
    /\ raised' = NoException
    /\ downloads' = <<>>
    /\ IF ~Truthy(api_key)
       THEN /\ display' = AppPage
                  \o <<Widget("error", "API Key not configured", <<>>)>>
                  \o BatchSection(uploaded_file)
            /\ calls' = <<>>
            /\ pc' = "idle"
            /\ NoBatch
       ELSE IF ~Truthy(f.name)
       THEN /\ display' = AppPage \o
                  <<Widget("error", "Please enter at least the donor's name", <<>>)>>
                  \o BatchSection(uploaded_file)
            /\ calls' = <<>>
            /\ pc' = "idle"
            /\ NoBatch
       ELSE /\ display' = AppPage
            /\ calls' = <<AppRequest(f, m)>>
            /\ pc' = "app_call"
            /\ df' = <<>>
            /\ idx' = 1
            /\ results' = <<>>
    /\ response' = NoResponse
    /\ UNCHANGED <<app, api_key, summary_response, verification_text, summary_text,
                   history, uploaded_file>>
    /\ rendered' = Len(history)

\* Lines 244-277: the two download buttons; the JSON one carries
\* json.dumps(verification_record, indent=2)
AppDownloads(rec) ==
    <<[label |-> "Download as JSON", record |-> rec,
       data |-> JsonDumps(RecordJson(rec))],
      [label |-> "Download as Text", record |-> rec]>>

\* Lines 206-277: the call returned; the run goes on to the end of the script
AppReturn(content) ==
    /\ pc = "app_call"
    /\ LET r == AppResponseText(content)
       IN  IF r.ok
           THEN LET rec == VerificationRecord(form, r.text)
                IN  /\ display' = AppPage \o
                          <<Widget("success", "Verification Complete!", <<>>),
                            Widget("markdown", "Verification Summary", r.text)>>
                          \o BatchSection(uploaded_file)
                    /\ history' = StoreInHistory(history, rec)
                    /\ downloads' = AppDownloads(rec)
                    /\ raised' = NoException
                    /\ pc' = "idle"
                    /\ UNCHANGED calls
           ELSE AppExcept(r.exc)
    /\ response' = Received(content)
    /\ NoBatch
    /\ UNCHANGED <<app, api_key, form, summary_response, verification_text,
                   summary_text, rendered, uploaded_file>>

\* Lines 187-204 raise: the call failed
AppRaise(e) ==
    /\ pc = "app_call"
    /\ AppExcept(e)
    /\ NoBatch
    /\ UNCHANGED <<app, api_key, form, response, summary_response, verification_text,
                   summary_text, rendered, uploaded_file>>

\* Lines 97-102: Clear History, a button of the sidebar when the history was not
\* empty as the sidebar was rendered; the history is emptied and the script
\* reruns (st.rerun), so the sidebar of the new run lists nothing
ClearHistory ==
    /\ app = "app"
    /\ pc = "idle"
    /\ rendered > 0
    /\ history' = <<>>
    /\ display' = AppPage \o BatchSection(uploaded_file)
    /\ downloads' = <<>>
    /\ calls' = <<>>
    /\ raised' = NoException
    /\ form' = NoForm
    /\ response' = NoResponse
    /\ NoBatch
    /\ UNCHANGED <<app, api_key, pc, summary_response, verification_text,
                   summary_text, uploaded_file>>
    /\ rendered' = 0

\* A run of the script with no button pressed and the file uf in the uploader:
\* the page, the sidebar and the batch section are rendered, nothing of the
\* earlier run is
PlainRun(uf) ==
    /\ uploaded_file' = uf
    /\ display' = AppPage \o BatchSection(uf)
    /\ downloads' = <<>>
    /\ calls' = <<>>
    /\ raised' = NoException
    /\ form' = NoForm
    /\ response' = NoResponse
    /\ df' = UploadedFrame(uf)
    /\ idx' = 1
    /\ results' = <<>>
    /\ rendered' = Len(history)
    /\ UNCHANGED <<app, api_key, pc, summary_response, verification_text,
                   summary_text, history>>

\* Lines 88-92: a sidebar widget is changed and the script reruns with no
\* button pressed
Rerun ==
    /\ app = "app"
    /\ pc = "idle"
    /\ PlainRun(uploaded_file)

\* Lines 326-335: a file is chosen in the uploader and the script reruns; the
\* Start Batch Verification button is rendered, not pressed
BatchUpload(file) ==
    /\ app = "app"
    /\ pc = "idle"
    /\ PlainRun(<<file>>)

\* Lines 326-332: the file is taken out of the uploader and the script reruns
BatchRemove ==
    /\ app = "app"
    /\ pc = "idle"
    /\ uploaded_file # NoFile
    /\ PlainRun(NoFile)

-----------------------------------------------------------------------------
(* Inputs of the summary stage of src/app-dev.py *)

\* "VERIFICATION STATUS: ok"
L_STATUS ==
    <<"V","E","R","I","F","I","C","A","T","I","O","N"," ","S","T","A","T","U","S",":",
      " ","o","k">>
\* "CONFIDENCE LEVEL: HIGH"
L_HIGH ==
    <<"C","O","N","F","I","D","E","N","C","E"," ","L","E","V","E","L",":"," ","H","I",
      "G","H">>
\* "CONFIDENCE LEVEL: MEDIUM not LOW"
L_MEDIUM_LOW ==
    <<"C","O","N","F","I","D","E","N","C","E"," ","L","E","V","E","L",":"," ","M","E",
      "D","I","U","M"," ","n","o","t"," ","L","O","W">>
\* "CONFIDENCE LEVEL: LOW not HIGH"
L_LOW_HIGH ==
    <<"C","O","N","F","I","D","E","N","C","E"," ","L","E","V","E","L",":"," ","L","O",
      "W"," ","n","o","t"," ","H","I","G","H">>
\* " CONFIDENCE LEVEL: LOW"
L_LOW ==
    <<" ","C","O","N","F","I","D","E","N","C","E"," ","L","E","V","E","L",":"," ","L",
      "O","W">>
\* "CONFIDENCE LEVEL: unsure"
L_NONE ==
    <<"C","O","N","F","I","D","E","N","C","E"," ","L","E","V","E","L",":"," ","u","n",
      "s","u","r","e">>
\* "NEXT STEPS: call"
L_NEXT ==
    <<"N","E","X","T"," ","S","T","E","P","S",":"," ","c","a","l","l">>
\* "HIGH marks"
L_OTHER ==
    <<"H","I","G","H"," ","m","a","r","k","s">>

SummaryLines ==
    {L_STATUS, L_HIGH, L_MEDIUM_LOW, L_LOW_HIGH, L_LOW, L_NONE, L_NEXT, L_OTHER}

\* "\n".join(lines)
RECURSIVE JoinLines(_)
JoinLines(lines) ==
    IF lines = <<>> THEN <<>>
    ELSE IF Len(lines) = 1 THEN lines[1]
    ELSE lines[1] \o <<"\n">> \o JoinLines(Tail(lines))

SummaryTexts == {JoinLines(ls) : ls \in SeqsUpTo(SummaryLines, MaxSummaryLines)}

\* summary_response.content of a summary reply
SummaryContents ==
    {<<>>, <<ToolUseBlock>>} \cup {<<TextBlock(t)>> : t \in SummaryTexts}

-----------------------------------------------------------------------------
(* src/app-dev.py: the two-stage run *)

\* app-dev.py:59-64, the literal text of query between its fields
DEV_QUERY ==
    <<
    <<"P","l","e","a","s","e"," ","s","e","a","r","c","h"," ","t","h","e"," ","w","e",
      "b"," ","a","n","d"," ","v","e","r","i","f","y"," ","t","h","i","s"," ","i","n",
      "f","o","r","m","a","t","i","o","n",":"," ","\n"," "," "," "," "," "," "," "," ",
      " "," "," "," "," "," "," "," ","-"," ","N","a","m","e",":"," ">>,
    <<"\n"," "," "," "," "," "," "," "," "," "," "," "," "," "," "," "," ","-"," ","T",
      "i","t","l","e",":"," ">>,
    <<"\n"," "," "," "," "," "," "," "," "," "," "," "," "," "," "," "," ","-"," ","C",
      "o","m","p","a","n","y",":"," ">>,
    <<"\n"," "," "," "," "," "," "," "," "," "," "," "," "," "," "," "," ","\n"," "," ",
      " "," "," "," "," "," "," "," "," "," "," "," "," "," ","A","f","t","e","r"," ",
      "s","e","a","r","c","h","i","n","g",","," ","p","r","o","v","i","d","e"," ","a",
      " ","d","e","t","a","i","l","e","d"," ","a","n","a","l","y","s","i","s"," ","o",
      "f"," ","w","h","a","t"," ","y","o","u"," ","f","o","u","n","d"," ","a","n","d",
      " ","w","h","e","t","h","e","r"," ","t","h","e"," ","i","n","f","o","r","m","a",
      "t","i","o","n"," ","i","s"," ","a","c","c","u","r","a","t","e",".">>
    >>

\* Lines 59-64: the text of query; the three inputs are formatted as they are
DevQuery(f) ==
    DEV_QUERY[1] \o f.name \o DEV_QUERY[2] \o f.title
    \o DEV_QUERY[3] \o f.company \o DEV_QUERY[4]

\* Lines 66-83: the request of the first stage
DevVerificationRequest(f) ==
    [api |-> "beta.messages.create", stage |-> "verification",
     model |-> "claude-sonnet-4-20250514", max_tokens |-> 20000, web_search |-> TRUE,
     prompt |-> DevQuery(f)]

\* Lines 149-154: the request of the second stage
DevSummaryRequest ==
    [api |-> "messages.create", stage |-> "summary",
     model |-> "claude-sonnet-4-20250514", max_tokens |-> 500, web_search |-> FALSE]

\* Lines 86-96: verification_text += content_item.text + "\n" for every block
\* that has the attribute `text` (message.content is a list)
RECURSIVE ExtractText(_)
ExtractText(content) ==
    IF content = <<>> THEN <<>>
    ELSE (IF HasText(Head(content)) THEN Head(content).text \o <<"\n">> ELSE <<>>)
         \o ExtractText(Tail(content))

\* Line 104: not verification_text or verification_text.strip() == ""
NoAnalysis(text) == ~Truthy(text) \/ Strip(text) = <<>>

\* Lines 103-105: the text carried forward after the check of line 104
CarriedText(text) == IF NoAnalysis(text) THEN NO_ANALYSIS ELSE text

\* A guard that forgets to compare with the placeholder
SummaryGuardNonEmpty(text) == Truthy(text)

\* Line 123: the guard of the second stage
SummaryGuard(text) == Truthy(text) /\ text # NO_ANALYSIS

\* A classification that looks for LOW before HIGH
ConfidenceWidgetLowFirst(line) ==
    IF Contains(LOW, line) THEN <<Widget("error", "confidence", line)>>
    ELSE IF Contains(MEDIUM, line) THEN <<Widget("warning", "confidence", line)>>
    ELSE IF Contains(HIGH, line) THEN <<Widget("success", "confidence", line)>>
    ELSE <<>>

\* Lines 170-175: the widget of a confidence line, if any
ConfidenceWidget(line) ==
    IF Contains(HIGH, line) THEN <<Widget("success", "confidence", line)>>
    ELSE IF Contains(MEDIUM, line) THEN <<Widget("warning", "confidence", line)>>
    ELSE IF Contains(LOW, line) THEN <<Widget("error", "confidence", line)>>
    ELSE <<>>

\* Lines 165-177: the widgets of one line of the summary
LineWidgets(raw) ==
    LET line == Strip(raw)
    IN  IF StartsWith(line, VERIFICATION_STATUS)
        THEN <<Widget("info", "status", line)>>
        ELSE IF StartsWith(line, CONFIDENCE_LEVEL) THEN ConfidenceWidget(line)
        ELSE IF StartsWith(line, NEXT_STEPS)
        THEN <<Widget("markdown", "next steps", line)>>
        ELSE <<>>

\* Lines 163-177: for line in summary_text.strip().split('\n')
RECURSIVE SummaryWidgets(_)
SummaryWidgets(lines) ==
    IF lines = <<>> THEN <<>>
    ELSE LineWidgets(Head(lines)) \o SummaryWidgets(Tail(lines))

\* Lines 186-200
Report(f, text, summary) ==
    [timestamp |-> NOW_ISO,
     processing_time_seconds |-> 0,
     donor_info |-> [name |-> f.name, title |-> f.title, company |-> f.company],
     web_search |-> [executed |-> TRUE, status |-> COMPLETED],
     verification_analysis |-> text,
     executive_summary |-> summary]

\* Lines 243-253: the hint chosen from the text of the exception; the debug
\* panel also shows the first reply when there is one
DevErrorHint(e, has_response) ==
    IF Contains(KW_RATE, Lower(e.msg))
    THEN <<Widget("info", "You may have hit a rate limit", <<>>)>>
    ELSE IF Contains(KW_API, Lower(e.msg))
    THEN <<Widget("info", "Please check your API key configuration", <<>>)>>
    ELSE <<Widget("code", "Debug Information", e.msg)>>
         \o (IF has_response
             THEN <<Widget("write", "Response type:", <<>>),
                    Widget("write", "Response content:", <<>>)>>
             ELSE <<>>)

\* Lines 242-253: the message and the hint shown for an exception
DevErrorWidgets(e, has_response) ==
    <<Widget("error", "Error: ", e.msg)>> \o DevErrorHint(e, has_response)

\* Lines 241-253; the widgets rendered before the exception stay on the page
DevExcept(e) ==
    /\ raised' = e
    /\ display' = display \o DevErrorWidgets(e, response.received)
    /\ pc' = "idle"
    /\ UNCHANGED <<calls, downloads>>

\* Lines 202-239: the two download buttons; the JSON one carries
\* json.dumps(report, indent=2)
DevDownloads(rep) ==
    <<[label |-> "Download JSON Report", record |-> rep,
       data |-> JsonDumps(ReportJson(rep))],
      [label |-> "Download Text Report", record |-> rep]>>

\* Lines 21-25: without a key every run of the script shows the error and stops
DevPage ==
    IF ~Truthy(api_key)
    THEN <<Widget("error", "Please add API-KEY to Streamlit secrets", <<>>)>>
    ELSE <<>>

\* Lines 21-48: a widget is changed and the script reruns with no button
\* pressed; nothing of the earlier run is rendered again
DevRerun ==
    /\ app = "dev"
    /\ pc = "idle"
    /\ display' = DevPage
    /\ downloads' = <<>>
    /\ calls' = <<>>
    /\ raised' = NoException
    /\ form' = NoForm
    /\ response' = NoResponse
    /\ summary_response' = NoResponse
    /\ verification_text' = <<>>
    /\ summary_text' = <<>>
    /\ UNCHANGED <<app, api_key, pc, history, df, idx, results, rendered,
                   uploaded_file>>

\* Lines 48-83 and 255-256: the button is pressed; the run stops at the first call
DevSubmit(f) ==
    /\ app = "dev"
    /\ pc = "idle"
    /\ Truthy(api_key)
    /\ form' = f
    /\ raised' = NoException
    /\ downloads' = <<>>
    /\ response' = NoResponse
    /\ summary_response' = NoResponse
    /\ verification_text' = <<>>
    /\ summary_text' = <<>>
    /\ IF Truthy(f.name)
       THEN /\ calls' = <<DevVerificationRequest(f)>>
            /\ display' = <<>>
            /\ pc' = "dev_verify"
       ELSE /\ calls' = <<>>
            /\ display' = <<Widget("warning", "Please enter a donor name to verify", <<>>)>>
            /\ pc' = "idle"
    /\ UNCHANGED <<app, api_key, history, df, idx, results, rendered,
                   uploaded_file>>

\* Lines 85-154: the first call returned; the run stops at the summary call, if any
DevVerifyReturn(content) ==
    /\ pc = "dev_verify"
    /\ LET extracted == ExtractText(content)
           text == CarriedText(extracted)
       IN  /\ verification_text' = text
           /\ display' =
                  (IF NoAnalysis(extracted)
                   THEN <<Widget("error", "Failed to extract verification analysis", <<>>)>>
                   ELSE <<>>)
                  \o <<Widget("success", "Web search completed successfully!", <<>>),
                       Widget("write", "Detailed Verification Analysis", text)>>
           /\ IF SummaryGuard(text)
              THEN /\ calls' = Append(calls, DevSummaryRequest)
                   /\ pc' = "dev_summary"
              ELSE /\ calls' = calls
                   /\ pc' = "idle"
    /\ response' = Received(content)
    /\ UNCHANGED <<app, api_key, form, raised, downloads, summary_response,
                   summary_text, history, df, idx, results, rendered,
                   uploaded_file>>

\* Lines 67-83 raise: the first call failed
DevVerifyRaise(e) ==
    /\ pc = "dev_verify"
    /\ DevExcept(e)
    /\ UNCHANGED <<app, api_key, form, response, summary_response, verification_text,
                   summary_text, history, df, idx, results, rendered,
                   uploaded_file>>

\* Line 156: summary_response.content[0].text (the value, or the exception)
SummaryText(content) ==
    IF content = <<>>
    THEN [ok |-> FALSE, text |-> <<>>, exc |-> IndexError]
    ELSE IF HasText(content[1])
    THEN [ok |-> TRUE, text |-> content[1].text, exc |-> NoException]
    ELSE [ok |-> FALSE, text |-> <<>>, exc |-> AttributeError(content[1])]

\* Lines 156-239: the summary call returned
DevSummaryReturn(content) ==
    /\ pc = "dev_summary"
    /\ LET r == SummaryText(content)
       IN  IF r.ok
           THEN LET rep == Report(form, verification_text, r.text)
                IN  /\ summary_text' = r.text
                    /\ display' = display
                          \o <<Widget("subheader", "Verification Summary", <<>>)>>
                          \o SummaryWidgets(SplitLines(Strip(r.text)))
                          \o <<Widget("caption", "Verification completed", <<>>)>>
                    /\ downloads' = DevDownloads(rep)
                    /\ pc' = "idle"
                    /\ UNCHANGED <<raised, calls>>
           ELSE /\ DevExcept(r.exc)
                /\ UNCHANGED summary_text
    /\ summary_response' = Received(content)
    /\ UNCHANGED <<app, api_key, form, response, verification_text, history,
                   df, idx, results, rendered,
                   uploaded_file>>

\* Lines 149-154 raise: the summary call failed
DevSummaryRaise(e) ==
    /\ pc = "dev_summary"
    /\ DevExcept(e)
    /\ UNCHANGED <<app, api_key, form, response, summary_response, verification_text,
                   summary_text, history, df, idx, results, rendered,
                   uploaded_file>>

-----------------------------------------------------------------------------
(* src/app.py: batch mode *)

\* Line 356: row.get('name', '')
DonorName(row) == IF row.has_name THEN row.name ELSE Str(<<>>)

\* Lines 356-358: if not donor_name: continue
Skipped(row) == ~CellTruthy(DonorName(row))

\* Lines 349-358: the first row at or after i that is not skipped
RECURSIVE NextRow(_, _)
NextRow(frame, i) ==
    IF i > Len(frame) THEN i
    ELSE IF Skipped(frame[i]) THEN NextRow(frame, i + 1)
    ELSE i

\* str() of the float NaN, as an f-string formats it
NAN_STR ==
    <<"n","a","n">>

\* app.py:361-368, the literal text of query between its fields
BATCH_QUERY ==
    <<
    <<"\n"," "," "," "," "," "," "," "," "," "," "," "," "," "," "," "," "," "," "," ",
      " "," "," "," "," "," "," "," "," ","P","l","e","a","s","e"," ","v","e","r","i",
      "f","y",":"," ">>,
    <<"\n"," "," "," "," "," "," "," "," "," "," "," "," "," "," "," "," "," "," "," ",
      " "," "," "," "," "," "," "," "," ","C","o","m","p","a","n","y",":"," ">>,
    <<"\n"," "," "," "," "," "," "," "," "," "," "," "," "," "," "," "," "," "," "," ",
      " "," "," "," "," "," "," "," "," ","J","o","b"," ","T","i","t","l","e",":"," ">>,
    <<"\n"," "," "," "," "," "," "," "," "," "," "," "," "," "," "," "," "," "," "," ",
      " "," "," "," "," "," "," "," "," ","E","m","a","i","l",":"," ">>,
    <<"\n"," "," "," "," "," "," "," "," "," "," "," "," "," "," "," "," "," "," "," ",
      " "," "," "," "," "," "," "," "," ","\n"," "," "," "," "," "," "," "," "," "," ",
      " "," "," "," "," "," "," "," "," "," "," "," "," "," "," "," "," "," ","P","r",
      "o","v","i","d","e"," ","a"," ","b","r","i","e","f"," ","v","e","r","i","f","i",
      "c","a","t","i","o","n"," ","s","u","m","m","a","r","y",".","\n"," "," "," "," ",
      " "," "," "," "," "," "," "," "," "," "," "," "," "," "," "," "," "," "," "," ",
      " "," "," "," ">>
    >>

\* Lines 361-368: a cell formatted into the f-string: a str as it is, NaN as "nan"
FormatCell(v) == IF v.kind = "str" THEN v.s ELSE NAN_STR

\* Lines 364-366: row.get(column, 'Not provided'); the default is taken only when
\* the column is absent, and the files here have the three optional columns
RowGet(row, column) ==
    CASE column = "company" -> row.company
      [] column = "job_title" -> row.job_title
      [] column = "email" -> row.email

\* Lines 361-368: the text of query for one row
BatchQuery(row) ==
    BATCH_QUERY[1] \o FormatCell(DonorName(row))
    \o BATCH_QUERY[2] \o FormatCell(RowGet(row, "company"))
    \o BATCH_QUERY[3] \o FormatCell(RowGet(row, "job_title"))
    \o BATCH_QUERY[4] \o FormatCell(RowGet(row, "email"))
    \o BATCH_QUERY[5]

\* Lines 370-379: the request of one row
BatchRequest(frame, m, i) ==
    [api |-> "beta.messages.create", stage |-> "batch", model |-> m,
     max_tokens |-> 500, web_search |-> TRUE, row |-> i,
     prompt |-> BatchQuery(frame[i])]

\* Line 385: message.content[0].text if message.content else 'No response'
BatchDetails(content) ==
    IF content # <<>>
    THEN IF HasText(content[1])
         THEN [ok |-> TRUE, text |-> content[1].text, exc |-> NoException]
         ELSE [ok |-> FALSE, text |-> <<>>, exc |-> AttributeError(content[1])]
    ELSE [ok |-> TRUE, text |-> NO_RESPONSE, exc |-> NoException]

\* Lines 382-386
VerifiedEntry(row, details) ==
    [name |-> DonorName(row), status |-> "Verified", details |-> details]

\* Lines 390-394
ErrorEntry(row, e) ==
    [name |-> DonorName(row), status |-> "Error", details |-> e.msg]

\* Lines 349-413: the loop runs on from row i to the next remote call, or to
\* the end of the frame, where the results are shown
BatchContinue(frame, m, i, entries) ==
    LET j == NextRow(frame, i)
    IN  /\ idx' = j
        /\ results' = entries
        /\ IF j <= Len(frame)
           THEN /\ calls' = Append(IF i = 1 THEN <<>> ELSE calls, BatchRequest(frame, m, j))
                /\ display' = AppPage \o BatchSection(uploaded_file)
                      \o <<Widget("info", "Processing records...", <<>>)>>
                /\ downloads' = <<>>
                /\ pc' = "batch_call"
           ELSE /\ calls' = (IF i = 1 THEN <<>> ELSE calls)
                /\ display' = AppPage \o BatchSection(uploaded_file) \o
                      <<Widget("info", "Processing records...", <<>>),
                        Widget("success", "Batch processing complete!", <<>>)>>
                /\ downloads' = <<[label |-> "Download Batch Results",
                                   record |-> entries]>>
                /\ pc' = "idle"

\* Lines 332-358: Start Batch Verification is pressed; the button is on the
\* page of every run that had a file in the uploader, and the run of the press
\* reads the file again
BatchStart(m) ==
    /\ app = "app"
    /\ pc = "idle"
    /\ uploaded_file # NoFile
    /\ df' = UploadedFrame(uploaded_file)
    /\ raised' = NoException
    /\ IF Truthy(api_key)
       THEN BatchContinue(UploadedFrame(uploaded_file), m, 1, <<>>)
       ELSE /\ display' = AppPage \o BatchSection(uploaded_file)
            /\ calls' = <<>>
            /\ downloads' = <<>>
            /\ idx' = 1
            /\ results' = <<>>
            /\ pc' = "idle"
    /\ form' = NoForm
    /\ response' = NoResponse
    /\ rendered' = Len(history)
    /\ UNCHANGED <<app, api_key, summary_response, verification_text,
                   summary_text, history, uploaded_file>>

\* Lines 381-394: the call of row idx returned; reading the text of the first
\* block may raise into the handler of the row
BatchReturn(content) ==
    /\ pc = "batch_call"
    /\ LET r == BatchDetails(content)
           entry == IF r.ok THEN VerifiedEntry(df[idx], r.text)
                    ELSE ErrorEntry(df[idx], r.exc)
       IN  /\ BatchContinue(df, calls[1].model, idx + 1, Append(results, entry))
           /\ raised' = r.exc
    /\ UNCHANGED <<app, api_key, form, response, summary_response,
                   verification_text, summary_text, history, df, rendered,
                   uploaded_file>>

\* Lines 389-394: the call of row idx failed
BatchRaise(e) ==
    /\ pc = "batch_call"
    /\ BatchContinue(df, calls[1].model, idx + 1,
                     Append(results, ErrorEntry(df[idx], e)))
    /\ raised' = e
    /\ UNCHANGED <<app, api_key, form, response, summary_response,
                   verification_text, summary_text, history, df, rendered,
                   uploaded_file>>

-----------------------------------------------------------------------------
(* The session *)

Init ==
    /\ app \in {"app", "dev"}
    /\ api_key \in {<<>>, Key}
    /\ pc = "idle"
    /\ form = NoForm
    /\ calls = <<>>
    /\ raised = NoException
    /\ display = (IF app = "app" THEN AppPage ELSE DevPage)
    /\ downloads = <<>>
    /\ response = NoResponse
    /\ summary_response = NoResponse
    /\ verification_text = <<>>
    /\ summary_text = <<>>
    /\ history = <<>>
    /\ rendered = 0
    /\ uploaded_file = NoFile
    /\ df = <<>>
    /\ idx = 1
    /\ results = <<>>

\* The donor form and the sidebar of app.py, and app-dev.py
Next ==
    \/ \E f \in AppForms, m \in Models : AppSubmit(f, m)
    \/ \E c \in Contents : AppReturn(c)
    \/ \E e \in RemoteErrors : AppRaise(e)
    \/ ClearHistory
    \/ Rerun
    \/ DevRerun
    \/ \E f \in DevForms : DevSubmit(f)
    \/ \E c \in Contents : DevVerifyReturn(c)
    \/ \E e \in RemoteErrors : DevVerifyRaise(e)
    \/ \E c \in SummaryContents : DevSummaryReturn(c)
    \/ \E e \in RemoteErrors : DevSummaryRaise(e)

Spec == Init /\ [][Next]_vars

\* The batch section of app.py
BatchInit ==
    /\ Init
    /\ app = "app"

BatchNext ==
    \/ \E file \in CsvFiles : BatchUpload(file)
    \/ BatchRemove
    \/ Rerun
    \/ \E m \in Models : BatchStart(m)
    \/ \E c \in Contents : BatchReturn(c)
    \/ \E e \in RemoteErrors : BatchRaise(e)

SpecBatch == BatchInit /\ [][BatchNext]_vars

-----------------------------------------------------------------------------
(* The export of a finished run *)

\* A text of two lines with a quote in it, and a backslash before an n
Lines == <<"a","\n","\"","b","\\","n">>

\* Texts of a reply that end up in an exported record
ExportTexts == {<<>>, Hi, Lines}

\* Replies from which app.py reads a text (line 211)
AppExportContents == {<<>>} \cup {<<TextBlock(t)>> : t \in ExportTexts}

\* Replies of the first stage whose text passes the guard of line 123
DevExportContents ==
    {c \in {<<TextBlock(Hi)>>, <<TextBlock(Lines)>>, <<TextBlock(Hi), TextBlock(Lines)>>} :
        SummaryGuard(CarriedText(ExtractText(c)))}

\* A run that has come to its download buttons: the inputs and the replies are
\* drawn from the sets above, the texts are those the run derived from them
\* (the page rendered so far is left out)
ExportInit ==
    /\ app \in {"app", "dev"}
    /\ api_key = Key
    /\ raised = NoException
    /\ display = <<>>
    /\ downloads = <<>>
    /\ rendered = 0
    /\ uploaded_file = NoFile
    /\ df = <<>>
    /\ idx = 1
    /\ results = <<>>
    /\ IF app = "app"
       THEN /\ pc = "app_export"
            /\ form \in {f \in AppForms : Truthy(f.name)}
            /\ response \in {Received(c) : c \in AppExportContents}
            /\ calls = <<AppRequest(form, "claude-sonnet-4-20250514")>>
            /\ history = <<VerificationRecord(form, AppResponseText(response.content).text)>>
            /\ summary_response = NoResponse
            /\ verification_text = <<>>
            /\ summary_text = <<>>
       ELSE /\ pc = "dev_export"
            /\ form \in {f \in DevForms : Truthy(f.name)}
            /\ response \in {Received(c) : c \in DevExportContents}
            /\ summary_response \in
                  {Received(<<TextBlock(t)>>) : t \in SummaryTexts \cup {Lines}}
            /\ calls = <<DevVerificationRequest(form), DevSummaryRequest>>
            /\ history = <<>>
            /\ verification_text = CarriedText(ExtractText(response.content))
            /\ summary_text = summary_response.content[1].text

\* app.py:244-277: the record stored at line 242 is offered for download
AppExport ==
    /\ pc = "app_export"
    /\ downloads' = AppDownloads(history[Len(history)])
    /\ pc' = "idle"
    /\ UNCHANGED <<app, api_key, form, calls, raised, display, response,
                   summary_response, verification_text, summary_text, history,
                   df, idx, results, rendered,
                   uploaded_file>>

\* app-dev.py:186-239: the report is built and offered for download
DevExport ==
    /\ pc = "dev_export"
    /\ downloads' = DevDownloads(Report(form, verification_text, summary_text))
    /\ pc' = "idle"
    /\ UNCHANGED <<app, api_key, form, calls, raised, display, response,
                   summary_response, verification_text, summary_text, history,
                   df, idx, results, rendered,
                   uploaded_file>>

ExportNext ==
    \/ AppExport
    \/ DevExport

SpecExport == ExportInit /\ [][ExportNext]_vars

-----------------------------------------------------------------------------
(* Vocabulary of the properties *)

IsPrefixOf(a, b) == Len(a) <= Len(b) /\ SubSeq(b, 1, Len(a)) = a

\* The texts of the text blocks of a reply, in reply order
RECURSIVE TextsOf(_)
TextsOf(content) ==
    IF content = <<>> THEN <<>>
    ELSE (IF HasText(Head(content)) THEN <<Head(content).text>> ELSE <<>>)
         \o TextsOf(Tail(content))

\* The number of calls of one stage issued by the current run
CountStage(stage) == Cardinality({i \in DOMAIN calls : calls[i].stage = stage})

\* A widget reduced to its kind and fixed wording, without the echoed text
Class(widgets) == [i \in DOMAIN widgets |-> <<widgets[i].w, widgets[i].label>>]

\* The last n widgets of the page
LastWidgets(n) ==
    IF n <= Len(display) THEN SubSeq(display, Len(display) - n + 1, Len(display))
    ELSE display

\* The name field of a batch row was empty in the file, or the column is absent
EmptyName(row) == DonorName(row) = NaN \/ DonorName(row) = Str(<<>>)

Placeholders == {NO_ANALYSIS, NO_RESPONSE_RECEIVED}

\* "not provided"
NOT_PROVIDED ==
    <<"n","o","t"," ","p","r","o","v","i","d","e","d">>

\* The reply to the verification call gave no analysis text: no text block, or
\* text blocks with nothing but white space
EmptyAnalysis == response.received /\ NoAnalysis(ExtractText(response.content))

IsLabeled(line) ==
    \/ StartsWith(line, VERIFICATION_STATUS)
    \/ StartsWith(line, CONFIDENCE_LEVEL)
    \/ StartsWith(line, NEXT_STEPS)

\* No line of the summary reply starts with one of the three labels
NoLabeledLine(content) ==
    \A k \in DOMAIN content :
        HasText(content[k]) =>
            LET lines == SplitLines(content[k].text)
            IN  \A i \in DOMAIN lines : ~IsLabeled(Strip(lines[i]))

-----------------------------------------------------------------------------
(* C1: a request with an empty donor name is rejected as invalid input and  *)
(* issues no remote call, in the form of either script and for every row of *)
(* the batch loop.                                                          *)
C1_EmptyNameNoCall ==
    /\ (form # NoForm /\ ~Truthy(form.name)) =>
           /\ calls = <<>>
           /\ pc = "idle"
           /\ \E i \in DOMAIN display : display[i].w \in {"error", "warning"}
    /\ \A i \in DOMAIN calls :
           calls[i].stage = "batch" => ~EmptyName(df[calls[i].row])

(* C2: the summary call is issued only after the verification call of the   *)
(* same run returned and its text was found non-empty; it is never the      *)
(* first call, and none is issued when the verification call raised or its  *)
(* reply had no text block.                                                 *)
C2_SummaryAfterValidText ==
    \A i \in DOMAIN calls :
        calls[i].stage = "summary" =>
            /\ i = 2
            /\ calls[1].stage = "verification"
            /\ response.received
            /\ TextsOf(response.content) # <<>>
            /\ Strip(verification_text) # <<>>
            /\ verification_text = ExtractText(response.content)

C2_Witness == pc = "dev_summary" /\ Len(calls) = 2 /\ Len(response.content) = 2

(* C3: when the verification reply yields an empty analysis text, the run   *)
(* is not reported as successful and no placeholder string is displayed,    *)
(* stored in the history or offered for download in place of the analysis.  *)
C3_EmptyAnalysisIsFailure ==
    EmptyAnalysis =>
        /\ \A i \in DOMAIN display :
               display[i].w # "success" /\ display[i].data \notin Placeholders
        /\ \A i \in DOMAIN history :
               history[i].data.verification_result \notin Placeholders
        /\ downloads = <<>>

(* C4: authentication, rate-limit, connection and timeout failures each     *)
(* produce an error outcome, and the outcome of one kind differs from the   *)
(* outcome any other kind produces at the same point.                       *)
ErrorOutcome(e) ==
    IF app = "app" THEN AppErrorWidgets(e) ELSE DevErrorWidgets(e, response.received)

C4_DistinctOutcomes ==
    (pc = "idle" /\ raised \in RemoteErrors) =>
        LET shown == LastWidgets(Len(ErrorOutcome(raised)))
        IN  /\ shown = ErrorOutcome(raised)
            /\ \A e \in RemoteErrors :
                   e.type # raised.type => Class(ErrorOutcome(e)) # Class(shown)

(* C5: the history is append-only: every earlier value of the history is a  *)
(* prefix of every later value.                                             *)
C5_AppendOnly == [][IsPrefixOf(history, history')]_vars

(* C5 as amended: every step leaves the history as it is or appends exactly *)
(* one record at its end, except Clear History, which empties it.           *)
C5_AppendOnlyUnlessCleared ==
    [][\/ history' = history
       \/ /\ Len(history') = Len(history) + 1
          /\ IsPrefixOf(history, history')
       \/ ClearHistory]_vars

C5_Witness == Len(history) = 2 /\ history[1] # history[2]

(* C6: a failed remote call is never issued again: a run attempts at most   *)
(* one verification call and at most one summary call, and once a call has  *)
(* failed the run is over, the error is shown and no call is outstanding.   *)
C6_NoRetry ==
    /\ CountStage("verification") <= 1
    /\ CountStage("summary") <= 1
    /\ Len(calls) <= 2
    /\ raised \in RemoteErrors =>
           /\ pc = "idle"
           /\ Len(calls) = (IF response.received THEN 2 ELSE 1)
           /\ \E i \in DOMAIN display :
                  display[i].w = "error" /\ display[i].data = raised.msg

C6_Witness ==
    /\ app = "dev"
    /\ raised \in RemoteErrors
    /\ response.received
    /\ Len(calls) = 2

(* C7: when the summary reply has no recognized labeled line, no error is   *)
(* raised and a report with the analysis text is emitted, the missing       *)
(* summary fields being tagged "not provided".                              *)
C7_PartialReport ==
    (summary_response.received /\ NoLabeledLine(summary_response.content)) =>
        /\ raised = NoException
        /\ downloads # <<>>
        /\ \A i \in DOMAIN downloads :
               downloads[i].record.verification_analysis = verification_text
        /\ \/ \E i \in DOMAIN display : display[i].data = NOT_PROVIDED
           \/ \E i \in DOMAIN downloads :
                  Contains(NOT_PROVIDED, downloads[i].record.executive_summary)

(* C8: a summary line that starts with CONFIDENCE LEVEL: is tagged with the *)
(* first of HIGH, MEDIUM, LOW that occurs in it, and is not tagged when     *)
(* none occurs; each such line gets one tag or none.                        *)
IsConfidenceWidget(d) == d.label = "confidence"

IsClassifiedLine(raw) ==
    /\ StartsWith(Strip(raw), CONFIDENCE_LEVEL)
    /\ \/ Contains(HIGH, Strip(raw))
       \/ Contains(MEDIUM, Strip(raw))
       \/ Contains(LOW, Strip(raw))

C8_ConfidencePriority ==
    (app = "dev" /\ pc = "idle" /\ downloads # <<>>) =>
        LET tags == SelectSeq(display, IsConfidenceWidget)
            lines == SelectSeq(SplitLines(Strip(summary_text)), IsClassifiedLine)
        IN  /\ Len(tags) = Len(lines)
            /\ \A i \in DOMAIN tags :
                   /\ tags[i].data = Strip(lines[i])
                   /\ tags[i].w = "success" <=> Contains(HIGH, tags[i].data)
                   /\ tags[i].w = "warning" <=>
                          (~Contains(HIGH, tags[i].data) /\ Contains(MEDIUM, tags[i].data))
                   /\ tags[i].w = "error" <=>
                          /\ ~Contains(HIGH, tags[i].data)
                          /\ ~Contains(MEDIUM, tags[i].data)
                          /\ Contains(LOW, tags[i].data)

C8_Witness ==
    /\ app = "dev"
    /\ pc = "idle"
    /\ downloads # <<>>
    /\ \E i \in DOMAIN display :
           /\ display[i].label = "confidence"
           /\ display[i].w = "success"
           /\ Contains(LOW, display[i].data)

(* C9: the analysis text is the texts of all text blocks of the reply in    *)
(* reply order, with a line break between two of them and nowhere else      *)
(* (stated for the replies that have a text block).                         *)
C9_AllTextsJoined ==
    (response.received /\ TextsOf(response.content) # <<>>) =>
        IF app = "dev"
        THEN verification_text = JoinLines(TextsOf(response.content))
        ELSE \E i \in DOMAIN display :
                 /\ display[i].w = "markdown"
                 /\ display[i].data = JoinLines(TextsOf(response.content))

(* C10: normalizing a reply that consists of one text block carrying an     *)
(* analysis text produced by normalization returns that text unchanged      *)
(* (stated for the replies that gave an analysis).                          *)
C10_Idempotent ==
    (app = "dev" /\ response.received /\ ~EmptyAnalysis) =>
        CarriedText(ExtractText(<<TextBlock(verification_text)>>)) = verification_text

-----------------------------------------------------------------------------
(* Optional fields in the prompts *)

\* "Email:"
LBL_EMAIL ==
    <<"E","m","a","i","l",":">>
\* "Phone:"
LBL_PHONE ==
    <<"P","h","o","n","e",":">>
\* "Address:"
LBL_ADDRESS ==
    <<"A","d","d","r","e","s","s",":">>
\* "Job Title:"
LBL_JOB_TITLE ==
    <<"J","o","b"," ","T","i","t","l","e",":">>
\* "Company:"
LBL_COMPANY ==
    <<"C","o","m","p","a","n","y",":">>
\* "LinkedIn:"
LBL_LINKEDIN ==
    <<"L","i","n","k","e","d","I","n",":">>
\* "- Title:"
LBL_DEV_TITLE ==
    <<"-"," ","T","i","t","l","e",":">>
\* "- Company:"
LBL_DEV_COMPANY ==
    <<"-"," ","C","o","m","p","a","n","y",":">>
\* "unknown"
UNKNOWN ==
    <<"u","n","k","n","o","w","n">>

\* The labeled lines of the optional fields in each prompt, with the field
AppOptional ==
    {<<LBL_EMAIL, "email">>, <<LBL_PHONE, "phone">>, <<LBL_ADDRESS, "address">>,
     <<LBL_JOB_TITLE, "job_title">>, <<LBL_COMPANY, "company">>,
     <<LBL_LINKEDIN, "linkedin_url">>}
DevOptional == {<<LBL_DEV_TITLE, "title">>, <<LBL_DEV_COMPANY, "company">>}
BatchOptional ==
    {<<LBL_COMPANY, "company">>, <<LBL_JOB_TITLE, "job_title">>, <<LBL_EMAIL, "email">>}

\* What the prompt says after the label, on the lines that begin with it
LabeledValues(prompt, label) ==
    LET lines == SplitLines(prompt)
    IN  {Strip(SubSeq(Strip(lines[i]), Len(label) + 1, Len(Strip(lines[i])))) :
            i \in {k \in DOMAIN lines : StartsWith(Strip(lines[k]), label)}}

\* The value reads as an explicit placeholder
IsPlaceholder(v) == Lower(v) \in {NOT_PROVIDED, UNKNOWN}

\* The prompt has the labeled line of the field, and only with a placeholder
PlaceholderLine(prompt, label) ==
    /\ LabeledValues(prompt, label) # {}
    /\ \A v \in LabeledValues(prompt, label) : IsPlaceholder(v)

\* C11: whenever a verification prompt has been sent for a donor with a
\* non-empty name, every optional field that was left empty appears in the
\* prompt on its labeled line with an explicit placeholder ("not provided" or
\* "unknown"), never blank or missing; in the single-donor prompts of both
\* variants and in the batch prompt.
C11_EmptyFieldPlaceholder ==
    /\ (app = "app" /\ pc = "app_call") =>
          \A o \in AppOptional :
              ~Truthy(form[o[2]]) => PlaceholderLine(calls[Len(calls)].prompt, o[1])
    /\ (app = "dev" /\ pc = "dev_verify") =>
          \A o \in DevOptional :
              ~Truthy(form[o[2]]) => PlaceholderLine(calls[Len(calls)].prompt, o[1])
    /\ pc = "batch_call" =>
          \A o \in BatchOptional :
              RowGet(df[idx], o[2]) = NaN =>
                  PlaceholderLine(calls[Len(calls)].prompt, o[1])

\* The same for app.py alone, where every optional field has a default
C11_AppPlaceholders ==
    (app = "app" /\ pc = "app_call") =>
        \A o \in AppOptional :
            ~Truthy(form[o[2]]) => PlaceholderLine(calls[Len(calls)].prompt, o[1])

-----------------------------------------------------------------------------
(* json.loads, as the reader of an exported file applies it *)

JsonError == [t |-> "error", v |-> <<>>]
ParseFail == [ok |-> FALSE, v |-> JsonError, i |-> 0]
Parsed(v, i) == [ok |-> TRUE, v |-> v, i |-> i]

\* The position of the first character at or after i that is not white space
RECURSIVE SkipWs(_, _)
SkipWs(s, i) ==
    IF i <= Len(s) /\ s[i] \in {" ", "\n", "\r", "\t"} THEN SkipWs(s, i + 1) ELSE i

MatchAt(s, i, lit) ==
    /\ i + Len(lit) - 1 <= Len(s)
    /\ SubSeq(s, i, i + Len(lit) - 1) = lit

\* The number of backslashes in a row that end just before position j, none
\* of them before position i
BackslashesBefore(s, i, j) ==
    CHOOSE n \in 0..(j - i) :
        /\ \A k \in 1..n : s[j - k] = "\\"
        /\ (n = j - i \/ s[j - n - 1] # "\\")

\* The character at j comes after the backslash of an escape
IsEscaped(s, i, j) == BackslashesBefore(s, i, j) % 2 = 1

\* The character an escape stands for ("" when there is no such escape)
Unescape(c) ==
    CASE c \in {"\"", "\\", "/"} -> c
      [] c = "n" -> "\n"
      [] c = "r" -> "\r"
      [] c = "t" -> "\t"
      [] OTHER -> ""

\* The str that began with the quote before position i: up to the closing
\* quote, escapes undone; a raw control character or an unknown escape is
\* refused
ScanString(s, i) ==
    LET IsClosing(j) == s[j] = "\"" /\ ~IsEscaped(s, i, j)
        \* the first closing quote, or the position after the text
        close == CHOOSE j \in i..(Len(s) + 1) :
                     /\ j = Len(s) + 1 \/ IsClosing(j)
                     /\ \A k \in i..(j - 1) : ~IsClosing(k)
        body == [k \in 1..(close - i) |->
                   LET j == i + k - 1
                   IN  IF IsEscaped(s, i, j) THEN <<Unescape(s[j])>>
                       ELSE IF s[j] = "\\" THEN <<>>
                       ELSE IF s[j] \in {"\n", "\r", "\t"} THEN <<"">>
                       ELSE <<s[j]>>]
        kept == SelectSeq(body, LAMBDA e : e # <<>>)
    IN  IF close > Len(s) THEN ParseFail
        ELSE IF \A k \in i..(close - 1) : s[k] \notin {"\\", "\n", "\r", "\t"}
        THEN Parsed(JStr(SubSeq(s, i, close - 1)), close + 1)
        ELSE IF \E k \in DOMAIN kept : kept[k] = <<"">> THEN ParseFail
        ELSE Parsed(JStr([k \in DOMAIN kept |-> kept[k][1]]), close + 1)

DigitValue(c) == CHOOSE d \in 0..9 : DigitChars[d + 1] = c
IsDigit(c) == \E d \in 0..9 : DigitChars[d + 1] = c

\* The digits from position i on, and their value after n
RECURSIVE ScanDigits(_, _, _)
ScanDigits(s, i, n) ==
    IF i <= Len(s) /\ IsDigit(s[i])
    THEN ScanDigits(s, i + 1, 10 * n + DigitValue(s[i]))
    ELSE [n |-> n, i |-> i]

\* A float written as digits "." digits; only a zero fraction is read
ParseFloat(s, i) ==
    LET whole == ScanDigits(s, i, 0)
    IN  IF whole.i <= Len(s) /\ s[whole.i] = "."
        THEN LET frac == ScanDigits(s, whole.i + 1, 0)
             IN  IF frac.i > whole.i + 1 /\ frac.n = 0
                 THEN Parsed(JFloat(whole.n), frac.i)
                 ELSE ParseFail
        ELSE ParseFail

RECURSIVE ParseValue(_, _)
RECURSIVE ParseMembers(_, _, _)
ParseValue(s, i0) ==
    LET i == SkipWs(s, i0)
    IN  IF i > Len(s) THEN ParseFail
        ELSE IF s[i] = "\"" THEN ScanString(s, i + 1)
        ELSE IF s[i] = "{"
             THEN LET j == SkipWs(s, i + 1)
                  IN  IF j <= Len(s) /\ s[j] = "}" THEN Parsed(JDict(<<>>), j + 1)
                      ELSE ParseMembers(s, j, <<>>)
        ELSE IF MatchAt(s, i, JSON_TRUE) THEN Parsed(JBool(TRUE), i + Len(JSON_TRUE))
        ELSE IF MatchAt(s, i, JSON_FALSE) THEN Parsed(JBool(FALSE), i + Len(JSON_FALSE))
        ELSE IF IsDigit(s[i]) THEN ParseFloat(s, i)
        ELSE ParseFail

\* The members of a dict from position i0 on, after those in acc
ParseMembers(s, i0, acc) ==
    LET i == SkipWs(s, i0)
    IN  IF i > Len(s) \/ s[i] # "\"" THEN ParseFail
        ELSE LET key == ScanString(s, i + 1)
                 j == SkipWs(s, key.i)
             IN  IF ~key.ok \/ j > Len(s) \/ s[j] # ":" THEN ParseFail
                 ELSE LET val == ParseValue(s, j + 1)
                          m == SkipWs(s, val.i)
                          all == Append(acc, <<key.v.v, val.v>>)
                      IN  IF ~val.ok \/ m > Len(s) THEN ParseFail
                          ELSE IF s[m] = "," THEN ParseMembers(s, m + 1, all)
                          ELSE IF s[m] = "}" THEN Parsed(JDict(all), m + 1)
                          ELSE ParseFail

\* json.loads(text): the value, or JsonError when the text is not one JSON value
JsonLoads(s) ==
    LET r == ParseValue(s, 1)
    IN  IF r.ok /\ SkipWs(s, r.i) > Len(s) THEN r.v ELSE JsonError

\* The value that was given to json.dumps for a JSON download
Exported(d) == IF app = "app" THEN RecordJson(d.record) ELSE ReportJson(d.record)

IsJsonDownload(d) == "data" \in DOMAIN d

RECURSIVE HasChar(_, _)
HasChar(v, c) ==
    IF v.t = "str" THEN \E k \in DOMAIN v.v : v.v[k] = c
    ELSE IF v.t = "dict" THEN \E k \in DOMAIN v.v : HasChar(v.v[k][2], c)
    ELSE FALSE

RECURSIVE HasEmptyStr(_)
HasEmptyStr(v) ==
    IF v.t = "str" THEN v.v = <<>>
    ELSE IF v.t = "dict" THEN \E k \in DOMAIN v.v : HasEmptyStr(v.v[k][2])
    ELSE FALSE

(***************************************************************************)
(* C12: every JSON export reads back as the record it was made from: the   *)
(* text of a JSON download, parsed as JSON, is equal key for key and value *)
(* for value to the exported record, also when a value is the empty        *)
(* string or has quotes, backslashes or line breaks in it.                 *)
(***************************************************************************)
C12_JsonRoundTrip ==
    \A i \in DOMAIN downloads :
        IsJsonDownload(downloads[i]) =>
            JsonLoads(downloads[i].data) = Exported(downloads[i])

\* A JSON export was offered whose record has an empty string, a quote, a
\* backslash and a line break in its values
C12_Witness ==
    \E i \in DOMAIN downloads :
        /\ IsJsonDownload(downloads[i])
        /\ HasChar(Exported(downloads[i]), "\"")
        /\ HasChar(Exported(downloads[i]), "\\")
        /\ HasChar(Exported(downloads[i]), "\n")
        /\ HasEmptyStr(Exported(downloads[i]))

-----------------------------------------------------------------------------
(* What the user is shown for an exception *)

\* The widgets the except handler rendered, at the end of the page
ShownForError == LastWidgets(Len(ErrorOutcome(raised)))

Count(widgets, kinds) == Cardinality({i \in DOMAIN widgets : widgets[i].w \in kinds})

\* A message or hint of fixed wording: not a widget that echoes the text of
\* the exception, and not a line of the debug panel
IsOwnMessage(widget) ==
    /\ widget.w \in {"error", "warning", "info"}
    /\ widget.data = <<>>

OneMessageAndAHint ==
    /\ Count(display, {"error"}) = 1
    /\ Count(ShownForError, {"error"}) = 1
    /\ Count(ShownForError, {"info", "warning"}) <= 1
    /\ \E i \in DOMAIN ShownForError : IsOwnMessage(ShownForError[i])

(***************************************************************************)
(* C13: for every exception of a verification run the page shows exactly   *)
(* one error message and at most one remediation hint, and the text of the *)
(* exception is never all the user gets: in every branch of the handler,   *)
(* the fall-through one included, a message or hint that is not the        *)
(* exception text is shown.                                                *)
(***************************************************************************)
C13_NeverOnlyRawText ==
    (pc = "idle" /\ raised # NoException) => OneMessageAndAHint

\* The same for the handler of app.py alone, whose fall-through branch has a hint
C13_AppHandler ==
    (app = "app" /\ pc = "idle" /\ raised # NoException) => OneMessageAndAHint

-----------------------------------------------------------------------------
(* The history across one verification request of app.py *)

\* The form values as the record keeps them under 'input'
SubmittedInput(f) ==
    [name |-> f.name, email |-> f.email, phone |-> f.phone, address |-> f.address,
     job_title |-> f.job_title, company |-> f.company, linkedin |-> f.linkedin_url]

\* The step submits the form: accepted (a call is issued) or rejected
IsSubmitStep == app = "app" /\ pc = "idle" /\ form' # NoForm

\* The step ends the remote call of a request
IsCompletionStep == app = "app" /\ pc = "app_call"

\* The call returned and its text was extracted without an exception
Succeeded == response'.received /\ raised' = NoException

AppendsOneRecordOf(f) ==
    /\ Len(history') = Len(history) + 1
    /\ SubSeq(history', 1, Len(history)) = history
    /\ history'[Len(history')].data.input = SubmittedInput(f)
    /\ history'[Len(history')].name = f.name

(***************************************************************************)
(* C14: in app.py a verification request changes the history in one way    *)
(* only: one record is appended, with the submitted form values as its     *)
(* input fields, exactly when the remote call returned and its text was    *)
(* extracted without an exception.  Submitting the form (rejected for a    *)
(* missing API key or an empty name, or accepted) leaves the history as it *)
(* is, and so does a call or a text extraction that raised.                *)
(***************************************************************************)
C14_HistoryFrame ==
    [][/\ IsSubmitStep => history' = history
       /\ IsCompletionStep =>
             IF Succeeded THEN AppendsOneRecordOf(form) ELSE history' = history
      ]_vars

\* A request with several fields filled in has been stored, after an earlier
\* record, by a call that returned
C14_Witness ==
    /\ app = "app" /\ pc = "idle"
    /\ response.received /\ raised = NoException
    /\ Len(history) = 2
    /\ Truthy(form.company) /\ Truthy(form.address) /\ ~Truthy(form.linkedin_url)
    /\ history[2].data.input = SubmittedInput(form)

-----------------------------------------------------------------------------
(* The batch loop, row by row *)

\* The rows before position n whose name is not empty, in file order
NamedRowsBefore(frame, n) ==
    SelectSeq(SubSeq(frame, 1, n - 1), LAMBDA row : ~EmptyName(row))

\* The rows before position n that the loop does not skip, in file order
KeptRowsBefore(frame, n) ==
    SelectSeq(SubSeq(frame, 1, n - 1), LAMBDA row : ~Skipped(row))

\* One entry for each of the rows, in their order and under their names
EntriesFor(entries, rows) ==
    /\ Len(entries) = Len(rows)
    /\ \A k \in DOMAIN entries :
          /\ entries[k].name = DonorName(rows[k])
          /\ entries[k].status \in {"Verified", "Error"}

\* The step ends the call of row idx: its entry is added after the others,
\* Verified when nothing was raised and Error otherwise, and the loop goes on
\* to the rows that remain
RowStep(Remaining(_)) ==
    pc = "batch_call" =>
        /\ Len(results') = Len(results) + 1
        /\ SubSeq(results', 1, Len(results)) = results
        /\ results'[Len(results')].name = DonorName(df[idx])
        /\ results'[Len(results')].status =
              (IF raised' = NoException THEN "Verified" ELSE "Error")
        /\ idx' > idx
        /\ pc' = (IF Remaining(idx + 1) THEN "batch_call" ELSE "idle")

(***************************************************************************)
(* C15: the batch loop takes the rows in file order and one by one: a row  *)
(* with an empty name gets no remote call and no entry; every row with a   *)
(* non-empty name gets exactly one entry, under its own name and in row    *)
(* order, Verified when its call returned and Error when it raised; and a  *)
(* failed row neither ends the loop nor touches the entries of the others. *)
(***************************************************************************)
C15_RowsIndependent ==
    [][/\ pc = "batch_call" => ~EmptyName(df[idx])
       /\ EntriesFor(results, NamedRowsBefore(df, idx))
       /\ EntriesFor(results', NamedRowsBefore(df', idx'))
       /\ Len(calls') = Len(results') + (IF pc' = "batch_call" THEN 1 ELSE 0)
       /\ RowStep(LAMBDA n : \E k \in n..Len(df) : ~EmptyName(df[k]))
      ]_vars

\* The same loop with the rows the code keeps (its own test of the name) in
\* place of the rows with a non-empty name: order, own names, one entry per
\* call, and a loop that goes on after a failure
C15_KeptRowsIndependent ==
    [][/\ pc = "batch_call" => ~Skipped(df[idx])
       /\ EntriesFor(results, KeptRowsBefore(df, idx))
       /\ EntriesFor(results', KeptRowsBefore(df', idx'))
       /\ Len(calls') = Len(results') + (IF pc' = "batch_call" THEN 1 ELSE 0)
       /\ RowStep(LAMBDA n : \E k \in n..Len(df) : ~Skipped(df[k]))
      ]_vars

=============================================================================
